---- MODULE Spec2Model ----
(***************************************************************************)
(* Cart-to-kitchen assistant: the recipe suggestion engine with its TTL    *)
(* cache and background image enrichment (recipe_generator.py), and the    *)
(* recipe orchestration over the ingredient matcher and the cart adder     *)
(* (agent.py, ingredientmatcheragent, cartadderagent).                     *)
(*                                                                         *)
(* Several specifications share the module: SpecGen drives the suggestion  *)
(* engine, SpecOrch drives process_recipe, SpecAccess interleaves the      *)
(* threads' accesses to the two caches, and SpecCart, SpecKey, SpecParse   *)
(* and SpecScale each apply one function to bounded inputs.                *)
(***************************************************************************)
EXTENDS Integers, Sequences, FiniteSets, TLC

VARIABLES
    adk_available,   \* RecipeGenerator.adk_available
    genai_available, \* RecipeGenerator.genai_available
    cache,           \* RecipeGenerator.cache: key -> list of recipes (present keys only)
    image_cache,     \* RecipeGenerator.image_cache: set of image keys that hold a path
    call,            \* the generate_suggested_recipes call in progress
    ret,             \* what the last generate_suggested_recipes call gave its caller
    genCalls,        \* number of invocations of the generation capability so far
    nCalls,          \* number of generate_suggested_recipes calls started
    runs,            \* background threads started on generate_images_for_recipes
    orch,            \* one process_recipe orchestration (see SpecOrch)
    cartRun,         \* one process_cart_request of the cart adder (see SpecCart)
    keyRun,          \* one _generate_cache_key application (see SpecKey)
    parseRun,        \* one _parse_ingredients application (see SpecParse)
    scaleRun,        \* one scale_ingredients application (see SpecScale)
    cacheOps         \* per thread: its cache operations and where it is (see SpecAccess)

genVars == <<adk_available, genai_available, cache, image_cache, call, ret,
             genCalls, nCalls, runs>>
libVars == <<cartRun, keyRun, parseRun, scaleRun, cacheOps>>
vars == <<adk_available, genai_available, cache, image_cache, call, ret,
          genCalls, nCalls, runs, orch, libVars>>

----------------------------------------------------------------------------
(* Bounds of the model *)

MaxCalls == 2     \* generate_suggested_recipes calls per behaviour
MaxThreads == 2   \* background threads alive at the same time

\* carts handed to generate_suggested_recipes: empty, one item, and the two
\* permutations of one multiset
Carts == {<<>>, <<"Garlic">>, <<"Garlic", "rice">>, <<"rice", "Garlic">>}
Sessions == {"s1"}

----------------------------------------------------------------------------
(* Sequences *)

Min(a, b) == IF a <= b THEN a ELSE b

\* python s[:n]
Take(s, n) == SubSeq(s, 1, Min(n, Len(s)))

SeqsUpTo(S, n) == UNION {[1..k -> S] : k \in 0..n}

Range(s) == {s[i] : i \in DOMAIN s}

\* python str.title() on the cart item names of the model
Title(item) == CASE item = "Garlic" -> "Garlic"
                 [] item = "rice" -> "Rice"
                 [] OTHER -> item

\* python's string order (code points): upper case sorts before lower case
CodePointRank(item) == CASE item = "Garlic" -> 1
                         [] item = "rice" -> 2
                         [] OTHER -> 3

RECURSIVE InsertSorted(_, _)
InsertSorted(x, s) ==
    IF s = <<>> THEN <<x>>
    ELSE IF CodePointRank(x) <= CodePointRank(Head(s)) THEN <<x>> \o s
    ELSE <<Head(s)>> \o InsertSorted(x, Tail(s))

RECURSIVE sorted(_)
sorted(s) == IF s = <<>> THEN <<>> ELSE InsertSorted(Head(s), sorted(Tail(s)))

\* python sep.join(list), as the sequence of its pieces
RECURSIVE Join(_, _)
Join(sep, s) ==
    IF s = <<>> THEN <<>>
    ELSE IF Len(s) = 1 THEN s
    ELSE <<Head(s), sep>> \o Join(sep, Tail(s))

----------------------------------------------------------------------------
(* recipe_generator.py: pure parts *)

\* the key built from the cart in the order given
_generate_cache_key_Unsorted(cart_items, session_id) ==
    Join(",", cart_items) \o <<":", session_id>>

\* The md5 digest is taken as injective on its input: the key is the hashed
\* content "<sorted items joined by ,>:<session id>".
_generate_cache_key(cart_items, session_id) ==
    Join(",", sorted(cart_items)) \o <<":", session_id>>

_get_fallback_recipes(cart_items) ==
    LET main_ingredients == IF Len(cart_items) >= 4 THEN Take(cart_items, 4)
                            ELSE cart_items
        fallback_recipes == <<
          [recipe_id |-> <<"fallback_skillet_medley">>,
           title |-> <<"One-Skillet">> \o Join("&", Take(main_ingredients, 2))
                       \o <<"Medley">>,
           default_servings |-> 4,
           ingredients |-> [i \in DOMAIN main_ingredients |->
                               Title(main_ingredients[i])],
           image_data |-> ""],
          [recipe_id |-> <<"fallback_fresh_combination">>,
           title |-> <<"Fresh",
                       IF main_ingredients # <<>> THEN main_ingredients[1]
                       ELSE "Ingredient",
                       "Combination">>,
           default_servings |-> 3,
           ingredients |-> [i \in DOMAIN Take(main_ingredients, 3) |->
                               Title(main_ingredients[i])],
           image_data |-> ""],
          [recipe_id |-> <<"fallback_roasted_blend">>,
           title |-> <<"Roasted">>
                       \o (IF Len(main_ingredients) >= 2
                           THEN Join("&", Take(main_ingredients, 2))
                           ELSE <<"Garden">>)
                       \o <<"Blend">>,
           default_servings |-> 4,
           ingredients |-> [i \in DOMAIN main_ingredients |->
                               Title(main_ingredients[i])],
           image_data |-> ""] >>
    IN Take(fallback_recipes, 3)

\* A draft of the generation capability's JSON array is either a JSON object
\* ("dict", here the empty object, so every field takes its default) or any
\* other JSON value ("nondict"), on which recipe_data.get raises and
\* _format_recipe returns None.  index is python's 0-based position.
DraftKinds == {"dict", "nondict"}

\* python str(n) for the small indices of the model
Decimal(n) == CASE n = 0 -> "0" [] n = 1 -> "1" [] n = 2 -> "2"
                [] n = 3 -> "3" [] OTHER -> "4"

_format_recipe(recipe_data, index) ==
    IF recipe_data = "dict"
    THEN <<[recipe_id |-> <<"suggested_", "recipe_", Decimal(index)>>,
            title |-> <<"Suggested Recipe", Decimal(index + 1)>>,
            default_servings |-> 4,
            ingredients |-> <<>>,
            image_data |-> ""]>>
    ELSE <<>>

\* the loop of _run_adk_agent over recipes_data[:3]
RECURSIVE FormatAll(_, _)
FormatAll(recipes_data, index) ==
    IF recipes_data = <<>> THEN <<>>
    ELSE _format_recipe(Head(recipes_data), index)
           \o FormatAll(Tail(recipes_data), index + 1)

_run_adk_agent(recipes_data) == FormatAll(Take(recipes_data, 3), 0)

\* Outcomes of one invocation of the generation capability inside
\* _generate_with_adk: a JSON array, the 15 s timeout, or any raised error
\* (no final response, invalid JSON, JSON that cannot be sliced).
\* JSON arrays the capability returns: empty, nothing formattable, one
\* object, a gap in the middle, and more than the three that are kept
DraftArrays == {<<>>, <<"nondict">>, <<"dict">>, <<"dict", "nondict", "dict">>,
                <<"dict", "dict", "dict", "dict">>}

GenOutcomes ==
    {[kind |-> "array", drafts |-> d] : d \in DraftArrays}
    \cup {[kind |-> "timeout", drafts |-> <<>>],
          [kind |-> "error", drafts |-> <<>>]}

----------------------------------------------------------------------------
(* recipe_generator.py: the cache and the synchronous path *)

CachePut(c, k, v) == [x \in DOMAIN c \cup {k} |-> IF x = k THEN v ELSE c[x]]
CacheDel(c, k) == [x \in DOMAIN c \ {k} |-> c[x]]

idleCall == [pc |-> "idle", cart_items |-> <<>>, session_id |-> ""]

Returned(path, cart_items, session_id, recipes) ==
    [kind |-> "list", path |-> path, cart_items |-> cart_items,
     session_id |-> session_id, recipes |-> recipes]

Raised(path, cart_items, session_id) ==
    [kind |-> "raised", path |-> path, cart_items |-> cart_items,
     session_id |-> session_id, recipes |-> <<>>]

\* threading.Thread(target=self.generate_images_for_recipes, args=args)
\* a thread that has ended keeps only its outcome
Ended(t, pc, wrote) ==
    [t EXCEPT !.pc = pc, !.wrote = wrote, !.recipes = <<>>,
              !.enhanced = <<>>, !.cache_key = <<>>]

\* threading.Thread(target=self.generate_images_for_recipes, args=args)
\* .start(), up to the thread's first access to shared state: a call with
\* two positional arguments raises TypeError (the method requires three)
\* and the thread ends; otherwise lines 1055-1066.  argc and n remember the
\* number of arguments and of recipes handed over.
Thread(args) ==
    LET t == [argc |-> Len(args), n |-> Len(args[1]), pc |-> "gather",
              cache_key |-> <<>>, recipes |-> args[1],
              pending |-> DOMAIN args[1], attempts |-> {},
              enhanced |-> args[1], wrote |-> FALSE]
    IN IF Len(args) # 3 THEN Ended([t EXCEPT !.pending = {}], "type_error", FALSE)
       ELSE IF ~genai_available
            THEN Ended([t EXCEPT !.pending = {}], "returned", FALSE)
       ELSE [t EXCEPT !.cache_key = _generate_cache_key(args[2], args[3][1])]

Alive(ts) == {i \in DOMAIN ts : ts[i].pc = "gather"}

CanCall == call.pc = "idle" /\ nCalls < MaxCalls

\* the short cart sent through the generation and the cache
GenerateShort_Generates(cart_items, session_id) ==
    /\ CanCall
    /\ Len(cart_items) < 2
    /\ nCalls' = nCalls + 1
    /\ genCalls' = IF adk_available THEN genCalls + 1 ELSE genCalls
    /\ cache' = CachePut(cache, _generate_cache_key(cart_items, session_id),
                         _get_fallback_recipes(cart_items))
    /\ ret' = Returned("short", cart_items, session_id,
                       _get_fallback_recipes(cart_items))
    /\ UNCHANGED <<adk_available, genai_available, image_cache, call,
                   runs, orch, libVars>>

\* lines 141-145: fewer than two cart items
GenerateShort(cart_items, session_id) ==
    /\ CanCall
    /\ Len(cart_items) < 2
    /\ nCalls' = nCalls + 1
    /\ ret' = Returned("short", cart_items, session_id,
                       _get_fallback_recipes(cart_items))
    /\ UNCHANGED <<adk_available, genai_available, cache, image_cache, call,
                   genCalls, runs, orch, libVars>>

\* lines 148-152: the membership test finds the key
GenerateHitTest(cart_items, session_id) ==
    /\ CanCall /\ Cardinality(Alive(runs)) < MaxThreads
    /\ Len(cart_items) >= 2
    /\ _generate_cache_key(cart_items, session_id) \in DOMAIN cache
    /\ nCalls' = nCalls + 1
    /\ call' = [pc |-> "hit_read", cart_items |-> cart_items,
                session_id |-> session_id]
    /\ UNCHANGED <<adk_available, genai_available, cache, image_cache, ret,
                   genCalls, runs, orch, libVars>>

\* the hit path without its return: the call goes on to the generation
GenerateHitRead_FallsThrough ==
    /\ call.pc = "hit_read"
    /\ LET cache_key == _generate_cache_key(call.cart_items, call.session_id)
       IN IF cache_key \in DOMAIN cache
          THEN /\ runs' = Append(runs,
                          Thread(<<cache[cache_key], <<call.session_id>>>>))
               /\ ret' = Returned("hit", call.cart_items, call.session_id,
                                  cache[cache_key])
               /\ genCalls' = IF adk_available THEN genCalls + 1 ELSE genCalls
          ELSE /\ runs' = runs
               /\ ret' = Raised("hit", call.cart_items, call.session_id)
               /\ genCalls' = genCalls
    /\ call' = idleCall
    /\ UNCHANGED <<adk_available, genai_available, cache, image_cache,
                   nCalls, orch, libVars>>

\* lines 153-157: read of the entry (KeyError when it expired since the
\* test; the read is outside the try), thread start with two arguments
GenerateHitRead ==
    /\ call.pc = "hit_read"
    /\ LET cache_key == _generate_cache_key(call.cart_items, call.session_id)
       IN IF cache_key \in DOMAIN cache
          THEN /\ runs' = Append(runs,
                          Thread(<<cache[cache_key], <<call.session_id>>>>))
               /\ ret' = Returned("hit", call.cart_items, call.session_id,
                                  cache[cache_key])
          ELSE /\ runs' = runs
               /\ ret' = Raised("hit", call.cart_items, call.session_id)
    /\ call' = idleCall
    /\ UNCHANGED <<adk_available, genai_available, cache, image_cache,
                   genCalls, nCalls, orch, libVars>>

\* lines 159-180 with _generate_with_adk (230-255): the set a miss yields
\* inside the try; <<>> stands for "raised"
MissRecipes(cart_items, outcome) ==
    IF ~adk_available THEN <<_get_fallback_recipes(cart_items)>>
    ELSE IF outcome.kind = "array" THEN <<_run_adk_agent(outcome.drafts)>>
    ELSE IF outcome.kind = "timeout" THEN <<_get_fallback_recipes(cart_items)>>
    ELSE <<>>

\* the miss path joining the enrichment before it returns
GenerateMiss_WaitsForImages(cart_items, session_id, outcome) ==
    /\ CanCall /\ Cardinality(Alive(runs)) < MaxThreads
    /\ Len(cart_items) >= 2
    /\ _generate_cache_key(cart_items, session_id) \notin DOMAIN cache
    /\ nCalls' = nCalls + 1
    /\ genCalls' = IF adk_available THEN genCalls + 1 ELSE genCalls
    /\ LET cache_key == _generate_cache_key(cart_items, session_id)
           result == MissRecipes(cart_items, outcome)
       IN IF result # <<>>
          THEN LET t == Thread(<<result[1], cart_items, <<session_id>>>>)
                   enhanced == [j \in DOMAIN result[1] |->
                                  [result[1][j] EXCEPT !.image_data = "None"]]
               IN /\ cache' = CachePut(cache, cache_key, enhanced)
                  /\ runs' = Append(runs,
                        Ended([t EXCEPT !.pending = {}, !.attempts = 1..t.n],
                              "done", TRUE))
                  /\ ret' = Returned("miss", cart_items, session_id, enhanced)
          ELSE /\ cache' = cache
               /\ runs' = runs
               /\ ret' = Returned("miss_except", cart_items, session_id,
                                  _get_fallback_recipes(cart_items))
    /\ UNCHANGED <<adk_available, genai_available, image_cache, call, orch, libVars>>

\* lines 159-183: cache miss
GenerateMiss(cart_items, session_id, outcome) ==
    /\ CanCall /\ Cardinality(Alive(runs)) < MaxThreads
    /\ Len(cart_items) >= 2
    /\ _generate_cache_key(cart_items, session_id) \notin DOMAIN cache
    /\ nCalls' = nCalls + 1
    /\ genCalls' = IF adk_available THEN genCalls + 1 ELSE genCalls
    /\ LET cache_key == _generate_cache_key(cart_items, session_id)
           result == MissRecipes(cart_items, outcome)
       IN IF result # <<>>
          THEN /\ cache' = CachePut(cache, cache_key, result[1])
               /\ runs' = Append(runs,
                          Thread(<<result[1], cart_items, <<session_id>>>>))
               /\ ret' = Returned("miss", cart_items, session_id, result[1])
          ELSE /\ cache' = cache
               /\ runs' = runs
               /\ ret' = Returned("miss_except", cart_items, session_id,
                                  _get_fallback_recipes(cart_items))
    /\ UNCHANGED <<adk_available, genai_available, image_cache, call, orch, libVars>>

\* TTLCache(ttl=300): an entry expires 300 s after it was stored, at any
\* point of the other threads' progress.  Entries of the image cache
\* (ttl=600) are taken to outlive the bounded behaviours of the model, and
\* neither cache reaches its maxsize (20 and 10).
Expire(cache_key) ==
    /\ cache_key \in DOMAIN cache
    /\ cache' = CacheDel(cache, cache_key)
    /\ UNCHANGED <<adk_available, genai_available, image_cache, call, ret,
                   genCalls, nCalls, runs, orch, libVars>>

----------------------------------------------------------------------------
(* recipe_generator.py: background enrichment *)

\* python truthiness of a recipe's image_data: "" and None are falsy
HasImage(recipe) == recipe.image_data \notin {"", "None"}

\* md5 of "<title>:<description>" (generate_recipe_image) or of
\* "<title>:<image_data>" (generate_recipe_image_with_description); the
\* description of a recipe is fixed by its title in this model
ImageCacheKey(recipe) ==
    IF HasImage(recipe) THEN <<recipe.title, <<recipe.image_data>>>>
    ELSE <<recipe.title, <<"description">>>>

\* what generate_recipe_image / generate_recipe_image_with_description
\* return for one recipe: a path ("img") or None
ImageResult(recipe, generated) ==
    IF ImageCacheKey(recipe) \in image_cache THEN "img"
    ELSE IF HasImage(recipe) THEN "None"   \* a file path is no JSON prompt
    ELSE IF generated THEN "img"
    ELSE "None"

\* a failed call leaving the recipe as it was handed over
_generate_single_recipe_image_async_KeepsField(recipe, image_file_path) ==
    IF image_file_path = "None" THEN recipe
    ELSE [recipe EXCEPT !.image_data = image_file_path]

\* lines 971-1047: the copy of the recipe with the path of its image, or
\* with None when the call gave no path or raised
_generate_single_recipe_image_async(recipe, image_file_path) ==
    [recipe EXCEPT !.image_data = image_file_path]

\* the image call storing its recipe into the cached set as it finishes
ImageCall_WritesThrough(i, j, generated) ==
    /\ i \in DOMAIN runs
    /\ runs[i].pc = "gather"
    /\ j \in runs[i].pending
    /\ LET recipe == runs[i].recipes[j]
           image_file_path == ImageResult(recipe, generated)
           done == _generate_single_recipe_image_async(recipe, image_file_path)
       IN /\ image_cache' =
                IF ImageCacheKey(recipe) \notin image_cache
                   /\ ~HasImage(recipe) /\ generated
                THEN image_cache \cup {ImageCacheKey(recipe)}
                ELSE image_cache
          /\ runs' = [runs EXCEPT ![i] =
                [@ EXCEPT !.pending = @ \ {j},
                          !.attempts = @ \cup {j},
                          !.enhanced[j] = done]]
          /\ cache' = CachePut(cache, runs[i].cache_key,
                               [runs[i].enhanced EXCEPT ![j] = done])
    /\ UNCHANGED <<adk_available, genai_available, call, ret,
                   genCalls, nCalls, orch, libVars>>

\* _generate_single_recipe_image_async for recipe j of run i; generated
\* tells whether the image model delivers an image (it may fail or raise)
ImageCall(i, j, generated) ==
    /\ i \in DOMAIN runs
    /\ runs[i].pc = "gather"
    /\ j \in runs[i].pending
    /\ LET recipe == runs[i].recipes[j]
           image_file_path == ImageResult(recipe, generated)
       IN /\ image_cache' =
                IF ImageCacheKey(recipe) \notin image_cache
                   /\ ~HasImage(recipe) /\ generated
                THEN image_cache \cup {ImageCacheKey(recipe)}
                ELSE image_cache
          /\ runs' = [runs EXCEPT ![i] =
                [@ EXCEPT !.pending = @ \ {j},
                          !.attempts = @ \cup {j},
                          !.enhanced[j] =
                              _generate_single_recipe_image_async(
                                  recipe, image_file_path)]]
    /\ UNCHANGED <<adk_available, genai_available, cache, call, ret,
                   genCalls, nCalls, orch, libVars>>

\* lines 1069-1083: the gather has joined every task; one cache write
RunFinish(i) ==
    /\ i \in DOMAIN runs
    /\ runs[i].pc = "gather"
    /\ runs[i].pending = {}
    /\ IF runs[i].enhanced # <<>>
       THEN /\ cache' = CachePut(cache, runs[i].cache_key, runs[i].enhanced)
            /\ runs' = [runs EXCEPT ![i] = Ended(@, "done", TRUE)]
       ELSE /\ cache' = cache
            /\ runs' = [runs EXCEPT ![i] = Ended(@, "done", FALSE)]
    /\ UNCHANGED <<adk_available, genai_available, image_cache, call, ret,
                   genCalls, nCalls, orch, libVars>>

----------------------------------------------------------------------------
(* The suggestion engine as a system *)

\* process_recipe at rest (agent.py)
noResult == [status |-> "none", keys |-> {}, message |-> "none",
             ingredients |-> <<>>, matched_products |-> <<>>,
             product_details |-> <<>>, matched_ingredients |-> <<>>,
             unmatched_ingredients |-> <<>>]

noResponse == [kind |-> "none", matched_ingredients |-> <<>>,
               unmatched_ingredients |-> <<>>, product_ids |-> <<>>,
               products |-> <<>>, searches |-> <<>>]

orchIdle ==
    [pc |-> "idle", recipe_text |-> <<>>, user_id |-> <<>>,
     ingredients |-> <<>>, matchStatus |-> "none", response |-> noResponse,
     extracted |-> <<>>,
     matched_products |-> <<>>, product_details |-> <<>>,
     matched_ingredients |-> <<>>, unmatched_ingredients |-> <<>>,
     cartCalls |-> 0, cartStatus |-> "none", addCalls |-> <<>>,
     result |-> noResult]

\* threads that touch the caches: two gRPC pool threads in
\* generate_suggested_recipes (grpc_server.py line 240), a background
\* thread in generate_images_for_recipes and two asyncio.to_thread workers
\* in generate_recipe_image
AccessThreads == {"request1", "request2", "run", "worker1", "worker2"}

\* no library function applied yet
libIdle ==
    /\ cartRun = [pc |-> "idle"]
    /\ keyRun = [pc |-> "idle"]
    /\ parseRun = [pc |-> "idle"]
    /\ scaleRun = [pc |-> "idle"]
    /\ cacheOps = [t \in AccessThreads |-> [prog |-> <<>>, i |-> 0, in |-> FALSE]]

noReturn == [kind |-> "none", path |-> "none", cart_items |-> <<>>,
             session_id |-> "", recipes |-> <<>>]

\* RecipeGenerator.__init__: both caches empty; the availability flags are
\* fixed by which SDKs the process could import and initialise
InitGen ==
    /\ adk_available \in BOOLEAN
    /\ genai_available \in BOOLEAN
    /\ cache = <<>>
    /\ image_cache = {}
    /\ call = idleCall
    /\ ret = noReturn
    /\ genCalls = 0
    /\ nCalls = 0
    /\ runs = <<>>
    /\ orch = orchIdle
    /\ libIdle

NextGen ==
    \/ \E c \in Carts, s \in Sessions : GenerateShort(c, s)
    \/ \E c \in Carts, s \in Sessions : GenerateHitTest(c, s)
    \/ GenerateHitRead
    \/ \E c \in Carts, s \in Sessions, o \in GenOutcomes : GenerateMiss(c, s, o)
    \/ \E k \in DOMAIN cache : Expire(k)
    \/ \E i \in DOMAIN runs, j \in 1..3, g \in BOOLEAN : ImageCall(i, j, g)
    \/ \E i \in DOMAIN runs : RunFinish(i)

SpecGen == InitGen /\ [][NextGen]_vars

----------------------------------------------------------------------------
(* Text of the orchestration: a text is the sequence of its words and      *)
(* punctuation marks, an identifier the sequence of its characters         *)

MaxIngredients == 2   \* longest list the matcher extracts from a message

\* python str.lower(), word by word
LowerWord(w) == CASE w = "Check" -> "check"
                  [] w = "CHECK" -> "check"
                  [] w = "INGREDIENT" -> "ingredient"
                  [] w = "AVAILABILITY" -> "availability"
                  [] w = "Please" -> "please"
                  [] w = "Add" -> "add"
                  [] w = "Garlic" -> "garlic"
                  [] w = "Cart" -> "cart"
                  [] w = "Roma" -> "roma"
                  [] w = "Tomatoes" -> "tomatoes"
                  [] w = "Ground" -> "ground"
                  [] w = "Beef" -> "beef"
                  [] w = "Mixed" -> "mixed"
                  [] w = "Greens" -> "greens"
                  [] w = "Whole" -> "whole"
                  [] w = "Milk" -> "milk"
                  [] w = "Avocado" -> "avocado"
                  [] w = "Bananas" -> "bananas"
                  [] w = "Bell" -> "bell"
                  [] w = "Bread" -> "bread"
                  [] w = "Breast" -> "breast"
                  [] w = "Broth" -> "broth"
                  [] w = "Carrots" -> "carrots"
                  [] w = "Celery" -> "celery"
                  [] w = "Cheddar" -> "cheddar"
                  [] w = "Cheese" -> "cheese"
                  [] w = "Chicken" -> "chicken"
                  [] w = "Cucumber" -> "cucumber"
                  [] w = "Dill" -> "dill"
                  [] w = "Egg" -> "egg"
                  [] w = "Eggs" -> "eggs"
                  [] w = "Fillets" -> "fillets"
                  [] w = "Flour" -> "flour"
                  [] w = "Fresh" -> "fresh"
                  [] w = "Ginger" -> "ginger"
                  [] w = "Jasmine" -> "jasmine"
                  [] w = "Large" -> "large"
                  [] w = "Lemon" -> "lemon"
                  [] w = "Lettuce" -> "lettuce"
                  [] w = "Noodles" -> "noodles"
                  [] w = "Oil" -> "oil"
                  [] w = "Olive" -> "olive"
                  [] w = "Onion" -> "onion"
                  [] w = "Peppers" -> "peppers"
                  [] w = "Rice" -> "rice"
                  [] w = "Salmon" -> "salmon"
                  [] w = "Salt" -> "salt"
                  [] w = "Sauce" -> "sauce"
                  [] w = "Sea" -> "sea"
                  [] w = "Seasoning" -> "seasoning"
                  [] w = "Sesame" -> "sesame"
                  [] w = "Shells" -> "shells"
                  [] w = "Soy" -> "soy"
                  [] w = "Taco" -> "taco"
                  [] w = "Thyme" -> "thyme"
                  [] w = "Tortillas" -> "tortillas"
                  [] w = "Vegetable" -> "vegetable"
                  [] w = "Wheat" -> "wheat"
                  [] w = "Yellow" -> "yellow"
                  [] OTHER -> w

lower(text) == [i \in DOMAIN text |-> LowerWord(text[i])]

\* python str.startswith
startswith(text, prefix) ==
    Len(text) >= Len(prefix) /\ SubSeq(text, 1, Len(prefix)) = prefix

\* python text.split(","), each piece stripped
RECURSIVE SplitFrom(_, _, _)
SplitFrom(text, i, piece) ==
    IF i > Len(text) THEN <<piece>>
    ELSE IF text[i] = "," THEN <<piece>> \o SplitFrom(text, i + 1, <<>>)
    ELSE SplitFrom(text, i + 1, Append(piece, text[i]))

split(text) == SplitFrom(text, 1, <<>>)

\* request texts handed to process_recipe
RecipeTexts ==
    {<<"Check", "ingredient", "availability", ":", "chicken", ",", "onion">>,
     <<"CHECK", "INGREDIENT", "AVAILABILITY", ":", "garlic">>,
     <<"Please", "check", "ingredient", "availability", ":", "garlic">>,
     <<"Add", "to", "cart", "(serves", "4)", ":", "2", "cups", "Roma",
       "Tomatoes", ",", "fresh", "garlic">>,
     <<"garlic", ",", "saffron">>,
     <<>>}

DEFAULT_USER == <<"d", "e", "f", "a", "u", "l", "t", "_", "u", "s", "e", "r">>

\* user ids handed to process_recipe
UserIds == {DEFAULT_USER, <<"a", "b", "-", "1">>, <<"U", "S", "E", "R", "4", "2">>}

GARLIC001 == <<"G", "A", "R", "L", "I", "C", "0", "0", "1">>
GARLIC002 == <<"G", "A", "R", "L", "I", "C", "0", "0", "2">>
BEEF001 == <<"B", "E", "E", "F", "0", "0", "1">>
SAFFRON001 == <<"S", "A", "F", "F", "R", "O", "N", "0", "0", "1">>

UpperLetters == {"A", "B", "C", "D", "E", "F", "G", "H", "I", "J", "K", "L",
                 "M", "N", "O", "P", "Q", "R", "S", "T", "U", "V", "W", "X",
                 "Y", "Z"}
LowerLetters == {"a", "b", "c", "d", "e", "f", "g", "h", "i", "j", "k", "l",
                 "m", "n", "o", "p", "q", "r", "s", "t", "u", "v", "w", "x",
                 "y", "z"}
Digits == {"0", "1", "2", "3", "4", "5", "6", "7", "8", "9"}

\* \w of python's re
IsWordChar(c) == c \in UpperLetters \cup LowerLetters \cup Digits \cup {"_"}

\* the maximal runs of word characters of a character sequence
RECURSIVE WordRunsFrom(_, _, _)
WordRunsFrom(chars, i, word) ==
    IF i > Len(chars) THEN (IF word = <<>> THEN <<>> ELSE <<word>>)
    ELSE IF IsWordChar(chars[i])
         THEN WordRunsFrom(chars, i + 1, Append(word, chars[i]))
    ELSE (IF word = <<>> THEN <<>> ELSE <<word>>)
           \o WordRunsFrom(chars, i + 1, <<>>)

WordRuns(chars) == WordRunsFrom(chars, 1, <<>>)

RECURSIVE Flatten(_)
Flatten(ss) == IF ss = <<>> THEN <<>> ELSE Head(ss) \o Flatten(Tail(ss))

RECURSIVE SelectSeqBy(_, _)
SelectSeqBy(s, S) ==
    IF s = <<>> THEN <<>>
    ELSE (IF Head(s) \in S THEN <<Head(s)>> ELSE <<>>) \o SelectSeqBy(Tail(s), S)

----------------------------------------------------------------------------
(* ingredientmatcheragent/agent_server.py *)

\* names _parse_ingredients yields: two catalog names the mock table knows
\* and a pass-through name it does not
IngredientNames == {"Garlic", "Ground Beef", "Saffron"}

\* lists _parse_ingredients returns (lines 239-315): no name twice
ExtractedLists ==
    {l \in SeqsUpTo(IngredientNames, MaxIngredients) :
        \A i, j \in DOMAIN l : i # j => l[i] # l[j]}

\* what the product catalog can answer for a query: a prefix of these
Catalog(ingredient) ==
    CASE ingredient = "Garlic" ->
           <<[id |-> GARLIC001, name |-> "Garlic"],
             [id |-> GARLIC002, name |-> "Garlic Powder"]>>
      [] ingredient = "Ground Beef" ->
           <<[id |-> BEEF001, name |-> "Ground Beef"]>>
      [] OTHER ->
           <<[id |-> SAFFRON001, name |-> "Saffron"]>>

\* outcomes of one SearchProducts call: so many results, or an error
SearchOutcomes == {"0", "1", "2", "error"}

ResultCount(outcome) == CASE outcome = "1" -> 1 [] outcome = "2" -> 2 [] OTHER -> 0

\* lines 360-447: the direct match; the partial match of lines 443-445
\* finds no key for "Saffron"
_mock_search_products(ingredient) ==
    CASE ingredient = "Garlic" -> <<[id |-> GARLIC001, name |-> "Garlic"]>>
      [] ingredient = "Ground Beef" -> <<[id |-> BEEF001, name |-> "Ground Beef"]>>
      [] OTHER -> <<>>

\* lines 317-353 without the fallback of 355-358: an errored search finds
\* nothing
_search_products_NoFallback(ingredient, outcome) ==
    IF outcome = "error" THEN <<>>
    ELSE Take(Catalog(ingredient), ResultCount(outcome))

\* lines 317-358
_search_products(ingredient, outcome) ==
    IF outcome = "error" THEN _mock_search_products(ingredient)
    ELSE Take(Catalog(ingredient), ResultCount(outcome))

\* the loop of lines 120-128, with the log of the searches it issued
RECURSIVE MatchLoop(_, _, _, _)
MatchLoop(ingredients, outcomes, i, acc) ==
    IF i > Len(ingredients) THEN acc
    ELSE LET products == _search_products(ingredients[i], outcomes[i])
             entry == [name |-> ingredients[i], outcome |-> outcomes[i],
                       products |-> products]
         IN MatchLoop(ingredients, outcomes, i + 1,
              [matched_products |-> acc.matched_products \o products,
               unmatched_ingredients |->
                  IF products # <<>> THEN acc.unmatched_ingredients
                  ELSE Append(acc.unmatched_ingredients, ingredients[i]),
               searches |-> Append(acc.searches, entry)])

\* every extracted ingredient reported as matched
match_ingredients_from_text_AllMatched(ingredients, outcomes) ==
    IF ingredients = <<>>
    THEN [kind |-> "error", matched_ingredients |-> <<>>,
          unmatched_ingredients |-> <<>>, product_ids |-> <<>>,
          products |-> <<>>, searches |-> <<>>]
    ELSE LET r == MatchLoop(ingredients, outcomes, 1,
                    [matched_products |-> <<>>, unmatched_ingredients |-> <<>>,
                     searches |-> <<>>])
         IN [kind |-> "result",
             matched_ingredients |-> ingredients,
             unmatched_ingredients |-> r.unmatched_ingredients,
             product_ids |-> [k \in DOMAIN r.matched_products |->
                                 r.matched_products[k].id],
             products |-> r.matched_products,
             searches |-> r.searches]

\* lines 101-143, after _parse_ingredients gave ingredients: the JSON
\* object of the answer ("error": the object without the lists)
match_ingredients_from_text(ingredients, outcomes) ==
    IF ingredients = <<>>
    THEN [kind |-> "error", matched_ingredients |-> <<>>,
          unmatched_ingredients |-> <<>>, product_ids |-> <<>>,
          products |-> <<>>, searches |-> <<>>]
    ELSE LET r == MatchLoop(ingredients, outcomes, 1,
                    [matched_products |-> <<>>, unmatched_ingredients |-> <<>>,
                     searches |-> <<>>])
         IN [kind |-> "result",
             matched_ingredients |->
                 SelectSeqBy(ingredients,
                             Range(ingredients) \ Range(r.unmatched_ingredients)),
             unmatched_ingredients |-> r.unmatched_ingredients,
             product_ids |-> [k \in DOMAIN r.matched_products |->
                                 r.matched_products[k].id],
             products |-> r.matched_products,
             searches |-> r.searches]

----------------------------------------------------------------------------
(* cartadderagent/agent_server.py *)

\* "Add these products to cart for user "
CART_MESSAGE_HEAD ==
    <<"A", "d", "d", " ", "t", "h", "e", "s", "e", " ", "p", "r", "o", "d",
      "u", "c", "t", "s", " ", "t", "o", " ", "c", "a", "r", "t", " ", "f",
      "o", "r", " ", "u", "s", "e", "r", " ">>

\* python ", ".join(ids) on character sequences
RECURSIVE JoinChars(_)
JoinChars(ids) ==
    IF ids = <<>> THEN <<>>
    ELSE IF Len(ids) = 1 THEN ids[1]
    ELSE ids[1] \o <<",", " ">> \o JoinChars(Tail(ids))

\* agent.py line 252
cart_message(user_id, matched_products) ==
    CART_MESSAGE_HEAD \o user_id \o <<":", " ">> \o JoinChars(matched_products)

\* a whole match of [A-Z]+\d+
IsProductIdWord(w) ==
    \E k \in 1..(Len(w) - 1) :
        /\ \A i \in 1..k : w[i] \in UpperLetters
        /\ \A i \in (k + 1)..Len(w) : w[i] \in Digits

\* re.findall(r"\b[A-Z]+\d+\b", text): a match starts and ends at a word
\* boundary and holds word characters only, so the matches are the maximal
\* runs of word characters of the form [A-Z]+\d+
FindProductIds(text) ==
    LET words == WordRuns(text)
    IN SelectSeqBy(words, {words[i] : i \in {j \in DOMAIN words :
                                               IsProductIdWord(words[j])}})

UserIdChars == UpperLetters \cup LowerLetters \cup Digits \cup {"-"}

\* the longest run of characters of S that starts at position i
RECURSIVE RunAt(_, _, _)
RunAt(text, i, S) ==
    IF i > Len(text) \/ text[i] \notin S THEN <<>>
    ELSE <<text[i]>> \o RunAt(text, i + 1, S)

\* re.search(r"user[:\s]+([a-zA-Z0-9\-]+)", text, re.IGNORECASE) tried at
\* position i: the captured group, or <<>> when there is no match at i
UserMatchAt(text, i) ==
    IF /\ i + 3 <= Len(text)
       /\ text[i] \in {"u", "U"} /\ text[i + 1] \in {"s", "S"}
       /\ text[i + 2] \in {"e", "E"} /\ text[i + 3] \in {"r", "R"}
    THEN LET seps == RunAt(text, i + 4, {":", " "})
         IN IF seps = <<>> THEN <<>>
            ELSE RunAt(text, i + 4 + Len(seps), UserIdChars)
    ELSE <<>>

RECURSIVE UserSearchFrom(_, _)
UserSearchFrom(text, i) ==
    IF i > Len(text) THEN DEFAULT_USER
    ELSE IF UserMatchAt(text, i) # <<>> THEN UserMatchAt(text, i)
    ELSE UserSearchFrom(text, i + 1)

\* orders list(set(product_ids)) can have
Orderings(S) == {o \in [1..Cardinality(S) -> S] : Range(o) = S}

\* lines 147-181 for a text that does not start with "{": the product ids
\* as a set (line 174) and the user id
_parse_product_data(text) ==
    [product_ids |-> Range(FindProductIds(text)),
     user_id |-> UserSearchFrom(text, 1)]

\* lines 117-124: one AddItem call per product id, in the list's order
AddItemCalls(user_id, product_ids, oks) ==
    [i \in DOMAIN product_ids |->
        [user_id |-> user_id, product_id |-> product_ids[i], ok |-> oks[i]]]

----------------------------------------------------------------------------
(* multi_tool_agent/agent.py: process_recipe *)

\* line 240 without the lower()
should_add_to_cart_CaseSensitive(recipe_text) ==
    ~startswith(recipe_text, <<"check", "ingredient", "availability">>)

\* line 240
should_add_to_cart(recipe_text) ==
    ~startswith(lower(recipe_text), <<"check", "ingredient", "availability">>)

\* lines 288-306
fallback_result(recipe_text) ==
    [status |-> "success", keys |-> {"status", "message", "ingredients"},
     message |-> "fallback", ingredients |-> split(recipe_text),
     matched_products |-> <<>>, product_details |-> <<>>,
     matched_ingredients |-> <<>>, unmatched_ingredients |-> <<>>]

\* lines 266-286
final_result(o) ==
    [status |-> "success",
     keys |-> {"status", "message", "matched_products", "ingredients",
               "product_details", "matched_ingredients",
               "unmatched_ingredients"},
     message |-> IF o.product_details # <<>> THEN "matched products"
                 ELSE "no products matched",
     ingredients |-> o.ingredients,
     matched_products |-> o.matched_products,
     product_details |-> o.product_details,
     matched_ingredients |-> o.matched_ingredients,
     unmatched_ingredients |-> o.unmatched_ingredients]

\* lines 150-170: up to the matcher call
ProcessRecipeStart(recipe_text, user_id) ==
    /\ orch.pc = "idle"
    /\ orch' = [orch EXCEPT !.pc = "match", !.recipe_text = recipe_text,
                            !.user_id = user_id,
                            !.ingredients = split(recipe_text)]
    /\ UNCHANGED <<genVars, libVars>>

\* lines 172-175 and 288-306: call_a2a_agent gave a status other than
\* success
MatcherCallFails ==
    /\ orch.pc = "match"
    /\ orch' = [orch EXCEPT !.pc = "done", !.matchStatus = "error",
                            !.result = fallback_result(orch.recipe_text)]
    /\ UNCHANGED <<genVars, libVars>>

\* lines 181-264 after a successful matcher call with the given answer: the
\* lists parsed from it, then the decision
AfterMatch(o) ==
    IF should_add_to_cart(o.recipe_text)
    THEN [o EXCEPT !.pc = "cart"]
    ELSE [o EXCEPT !.pc = "done", !.result = final_result(o)]

\* the matcher handled the message and answered with its JSON object
MatcherAnswers(ingredients, outcomes) ==
    /\ orch.pc = "match"
    /\ LET response == match_ingredients_from_text(ingredients, outcomes)
       IN orch' = AfterMatch(
            [orch EXCEPT !.matchStatus = "success", !.response = response,
                         !.extracted = ingredients,
                         !.matched_products = response.product_ids,
                         !.product_details = response.products,
                         !.matched_ingredients = response.matched_ingredients,
                         !.unmatched_ingredients =
                             response.unmatched_ingredients])
    /\ UNCHANGED <<genVars, libVars>>

\* the matcher's task failed or carried no text: response_text is
\* str(final_response), json.loads raises JSONDecodeError (lines 228-237);
\* an empty text is not parsed at all (line 198) and leaves the same lists
MatcherAnswersNoJson ==
    /\ orch.pc = "match"
    /\ orch' = AfterMatch([orch EXCEPT !.matchStatus = "success"])
    /\ UNCHANGED <<genVars, libVars>>

\* the non-object answer escaping process_recipe
MatcherAnswersNonObject_Raises ==
    /\ orch.pc = "match"
    /\ orch' = [orch EXCEPT
          !.pc = "done", !.matchStatus = "success",
          !.response = [noResponse EXCEPT !.kind = "non_object"],
          !.result = [noResult EXCEPT !.status = "raised"]]
    /\ UNCHANGED <<genVars, libVars>>

\* the matcher's text is JSON but no object (a list, a string, a number):
\* ingredient_response.get raises AttributeError (line 201), which the
\* inner handler (228) does not catch and the outer one (288) does
MatcherAnswersNonObject ==
    /\ orch.pc = "match"
    /\ orch' = [orch EXCEPT
          !.pc = "done", !.matchStatus = "success",
          !.response = [noResponse EXCEPT !.kind = "non_object"],
          !.result = fallback_result(orch.recipe_text)]
    /\ UNCHANGED <<genVars, libVars>>

\* lines 253-260 and 288-306
CartCallFails ==
    /\ orch.pc = "cart"
    /\ orch' = [orch EXCEPT !.pc = "done", !.cartStatus = "error",
                            !.cartCalls = @ + 1,
                            !.result = fallback_result(orch.recipe_text)]
    /\ UNCHANGED <<genVars, libVars>>

\* outcomes of the n AddItem calls of one request (lines 183-217): every
\* call succeeds, every call fails, or the first one alone fails
AddItemOutcomes(n) ==
    {[i \in 1..n |-> TRUE], [i \in 1..n |-> FALSE], [i \in 1..n |-> i # 1]}

\* lines 252-286 with the cart adder's process_cart_request (99-145)
\* handling the message: order is the order of list(set(...)), oks the
\* outcomes of the AddItem calls
CartAdderAnswers ==
    /\ orch.pc = "cart"
    /\ LET product_data == _parse_product_data(
                               cart_message(orch.user_id, orch.matched_products))
       IN \E order \in Orderings(product_data.product_ids),
             oks \in AddItemOutcomes(Cardinality(product_data.product_ids)) :
             orch' = [orch EXCEPT
                !.pc = "done", !.cartStatus = "success", !.cartCalls = @ + 1,
                !.addCalls = AddItemCalls(product_data.user_id, order, oks),
                !.result = final_result(orch)]
    /\ UNCHANGED <<genVars, libVars>>

InitOrch ==
    /\ adk_available = TRUE
    /\ genai_available = TRUE
    /\ cache = <<>>
    /\ image_cache = {}
    /\ call = idleCall
    /\ ret = noReturn
    /\ genCalls = 0
    /\ nCalls = 0
    /\ runs = <<>>
    /\ orch = orchIdle
    /\ libIdle

NextOrch ==
    \/ \E t \in RecipeTexts, u \in UserIds : ProcessRecipeStart(t, u)
    \/ MatcherCallFails
    \/ \E l \in ExtractedLists, o \in [1..MaxIngredients -> SearchOutcomes] :
          MatcherAnswers(l, SubSeq(o, 1, Len(l)))
    \/ MatcherAnswersNoJson
    \/ MatcherAnswersNonObject
    \/ CartCallFails
    \/ CartAdderAnswers

SpecOrch == InitOrch /\ [][NextOrch]_vars

----------------------------------------------------------------------------
(* cartadderagent/agent_server.py: process_cart_request on its own *)

MaxCartIds == 3   \* product ids written in one cart message

\* messages the cart adder receives: the orchestrator's sentence for a user
\* and a list of product ids
CartTexts ==
    {cart_message(u, ids) :
        u \in {DEFAULT_USER, <<"U", "S", "E", "R", "4", "2">>},
        ids \in SeqsUpTo({GARLIC001, GARLIC002, BEEF001}, MaxCartIds)}

\* what the user's cart holds before the request
CartsBefore == {<<>>, <<SAFFRON001>>}

\* the loop stopped by the first failing AddItem call
RECURSIVE AddLoop_StopsAtFailure(_, _, _, _, _)
AddLoop_StopsAtFailure(user_id, product_ids, oks, i, acc) ==
    IF i > Len(product_ids) THEN acc
    ELSE LET a == [user_id |-> user_id, product_id |-> product_ids[i],
                   ok |-> oks[i]]
         IN IF ~oks[i] THEN [acc EXCEPT !.calls = Append(@, a)]
            ELSE AddLoop_StopsAtFailure(user_id, product_ids, oks, i + 1,
                   [calls |-> Append(acc.calls, a),
                    added_items |-> Append(acc.added_items, product_ids[i]),
                    cart |-> Append(acc.cart, product_ids[i])])

\* lines 119-124: one _add_item_to_cart per product id; a successful call
\* puts the product in the user's cart and in added_items
RECURSIVE AddLoop(_, _, _, _, _)
AddLoop(user_id, product_ids, oks, i, acc) ==
    IF i > Len(product_ids) THEN acc
    ELSE LET a == [user_id |-> user_id, product_id |-> product_ids[i],
                   ok |-> oks[i]]
         IN AddLoop(user_id, product_ids, oks, i + 1,
              [calls |-> Append(acc.calls, a),
               added_items |-> IF oks[i]
                               THEN Append(acc.added_items, product_ids[i])
                               ELSE acc.added_items,
               cart |-> IF oks[i] THEN Append(acc.cart, product_ids[i])
                        ELSE acc.cart])

\* lines 99-145: the request for text, with product_ids the list
\* list(set(...)) gave and oks the outcomes of the AddItem calls
process_cart_request(text, product_ids, oks, cart) ==
    IF product_ids = <<>>
    THEN [pc |-> "done", text |-> text, kind |-> "error",
          user_id |-> <<>>, product_ids |-> <<>>, calls |-> <<>>,
          added_items |-> <<>>, cart_before |-> cart, cart |-> cart]
    ELSE LET user_id == _parse_product_data(text).user_id
             r == AddLoop(user_id, product_ids, oks, 1,
                          [calls |-> <<>>, added_items |-> <<>>, cart |-> cart])
         IN [pc |-> "done", text |-> text, kind |-> "success",
             user_id |-> user_id, product_ids |-> product_ids,
             calls |-> r.calls, added_items |-> r.added_items,
             cart_before |-> cart, cart |-> r.cart]

ProcessCartRequest(text, cart) ==
    /\ cartRun.pc = "idle"
    /\ LET ids == _parse_product_data(text).product_ids
       IN \E product_ids \in Orderings(ids),
             oks \in [1..Cardinality(ids) -> BOOLEAN] :
             cartRun' = process_cart_request(text, product_ids, oks, cart)
    /\ UNCHANGED <<genVars, orch, keyRun, parseRun, scaleRun, cacheOps>>

InitCart == InitOrch

NextCart == \E text \in CartTexts, cart \in CartsBefore :
               ProcessCartRequest(text, cart)

SpecCart == InitCart /\ [][NextCart]_vars

----------------------------------------------------------------------------
(* recipe_generator.py: _generate_cache_key on its own *)

MaxKeyItems == 3   \* longest cart handed to _generate_cache_key

KeyItems == {"Garlic", "rice", "salt"}
KeySessions == {"s1", "s2", "default"}

ComputeKey(cart_items, session_id) ==
    /\ keyRun.pc = "idle"
    /\ keyRun' = [pc |-> "done", cart_items |-> cart_items,
                  session_id |-> session_id,
                  key |-> _generate_cache_key(cart_items, session_id)]
    /\ UNCHANGED <<genVars, orch, cartRun, parseRun, scaleRun, cacheOps>>

InitKey == InitOrch

NextKey == \E cart_items \in SeqsUpTo(KeyItems, MaxKeyItems),
              session_id \in KeySessions :
              ComputeKey(cart_items, session_id)

SpecKey == InitKey /\ [][NextKey]_vars

\* the orders of a list
Reorderings(s) ==
    {[i \in DOMAIN s |-> s[f[i]]] :
        f \in {g \in [DOMAIN s -> DOMAIN s] : Range(g) = DOMAIN s}}

----------------------------------------------------------------------------
(* ingredientmatcheragent/agent_server.py: _parse_ingredients on its own.  *)
(* A text is the sequence of its words and punctuation marks; a name is    *)
(* the sequence of its words.                                              *)

MaxParseItems == 3   \* comma-separated items in one message

\* items of the messages: with a quantity and a unit, with a modifier in
\* front, catalog names, a search term, a word the mapping does not know,
\* a modifier alone, and a phrase around a search term of two words
ParseItems ==
    {<<"2", "cups", "Roma", "Tomatoes">>, <<"1", "lb", "Ground", "Beef">>,
     <<"fresh", "garlic">>, <<"Mixed", "Greens">>, <<"Whole", "Milk">>,
     <<"Garlic">>, <<"beef">>, <<"saffron">>, <<"fresh">>,
     <<"organic", "chicken", "broth">>}

\* what stands before the list: the two patterns of lines 244-248, or
\* nothing
ParseHeads ==
    {<<"Add", "to", "cart", "(serves", "4)", ":">>,
     <<"Check", "ingredient", "availability", ":">>,
     <<>>}

\* python ", ".join(names) as a text
RECURSIVE CommaJoin(_)
CommaJoin(names) ==
    IF names = <<>> THEN <<>>
    ELSE IF Len(names) = 1 THEN names[1]
    ELSE names[1] \o <<",">> \o CommaJoin(Tail(names))

ParseTexts ==
    {head \o CommaJoin(items) :
        head \in ParseHeads, items \in SeqsUpTo(ParseItems, MaxParseItems)}

\* \d+(?:\.\d+)? on the words of the model
IsNumber(w) == w \in {"1", "2", "4", "1.5"}

\* the units of the quantity pattern (lines 253 and 287)
UNITS ==
    {"cup", "cups", "tablespoon", "tablespoons", "tbsp", "teaspoon",
     "teaspoons", "tsp", "pound", "pounds", "lb", "lbs", "ounce", "ounces",
     "oz", "piece", "pieces", "clove", "cloves", "slice", "slices", "can",
     "cans", "package", "packages", "pkg"}

\* re.sub of the quantity pattern: a number, a unit and more text after it
StripQuantity(item) ==
    IF Len(item) >= 3 /\ IsNumber(item[1]) /\ LowerWord(item[2]) \in UNITS
    THEN SubSeq(item, 3, Len(item))
    ELSE item

\* the one-word patterns of lines 154 and 157; the patterns of several
\* words (155, 156, 159) match nothing in the items of the model
MODIFIERS ==
    {"fresh", "grated", "chopped", "diced", "sliced", "minced", "crushed",
     "ground", "whole", "mixed", "large", "small", "medium"}

\* lines 149-168
clean_ingredient_name(ingredient) ==
    SelectSeq(ingredient, LAMBDA w : LowerWord(w) \notin MODIFIERS)

\* lines 171-237, in the order of the dict
ingredient_mapping ==
    <<[term |-> <<"chicken", "breast">>, name |-> <<"Chicken", "Breast">>],
      [term |-> <<"chicken">>, name |-> <<"Chicken", "Breast">>],
      [term |-> <<"ground", "beef">>, name |-> <<"Ground", "Beef">>],
      [term |-> <<"beef">>, name |-> <<"Ground", "Beef">>],
      [term |-> <<"salmon", "fillets">>, name |-> <<"Salmon", "Fillets">>],
      [term |-> <<"salmon">>, name |-> <<"Salmon", "Fillets">>],
      [term |-> <<"garlic">>, name |-> <<"Garlic">>],
      [term |-> <<"ginger">>, name |-> <<"Ginger">>],
      [term |-> <<"bell", "pepper">>, name |-> <<"Bell", "Peppers">>],
      [term |-> <<"bell", "peppers">>, name |-> <<"Bell", "Peppers">>],
      [term |-> <<"peppers">>, name |-> <<"Bell", "Peppers">>],
      [term |-> <<"yellow", "onion">>, name |-> <<"Yellow", "Onion">>],
      [term |-> <<"onion">>, name |-> <<"Yellow", "Onion">>],
      [term |-> <<"onions">>, name |-> <<"Yellow", "Onion">>],
      [term |-> <<"roma", "tomatoes">>, name |-> <<"Roma", "Tomatoes">>],
      [term |-> <<"tomatoes">>, name |-> <<"Roma", "Tomatoes">>],
      [term |-> <<"tomato">>, name |-> <<"Roma", "Tomatoes">>],
      [term |-> <<"lettuce">>, name |-> <<"Lettuce">>],
      [term |-> <<"carrots">>, name |-> <<"Carrots">>],
      [term |-> <<"carrot">>, name |-> <<"Carrots">>],
      [term |-> <<"celery">>, name |-> <<"Celery">>],
      [term |-> <<"cucumber">>, name |-> <<"Cucumber">>],
      [term |-> <<"mixed", "greens">>, name |-> <<"Mixed", "Greens">>],
      [term |-> <<"avocado">>, name |-> <<"Avocado">>],
      [term |-> <<"cheddar", "cheese">>, name |-> <<"Cheddar", "Cheese">>],
      [term |-> <<"cheese">>, name |-> <<"Cheddar", "Cheese">>],
      [term |-> <<"whole", "milk">>, name |-> <<"Whole", "Milk">>],
      [term |-> <<"milk">>, name |-> <<"Whole", "Milk">>],
      [term |-> <<"large", "eggs">>, name |-> <<"Large", "Eggs">>],
      [term |-> <<"eggs">>, name |-> <<"Large", "Eggs">>],
      [term |-> <<"flour", "tortillas">>, name |-> <<"Flour", "Tortillas">>],
      [term |-> <<"tortillas">>, name |-> <<"Flour", "Tortillas">>],
      [term |-> <<"whole", "wheat", "bread">>, name |-> <<"Whole", "Wheat", "Bread">>],
      [term |-> <<"bread">>, name |-> <<"Whole", "Wheat", "Bread">>],
      [term |-> <<"jasmine", "rice">>, name |-> <<"Jasmine", "Rice">>],
      [term |-> <<"rice">>, name |-> <<"Jasmine", "Rice">>],
      [term |-> <<"egg", "noodles">>, name |-> <<"Egg", "Noodles">>],
      [term |-> <<"noodles">>, name |-> <<"Egg", "Noodles">>],
      [term |-> <<"olive", "oil">>, name |-> <<"Olive", "Oil">>],
      [term |-> <<"sesame", "oil">>, name |-> <<"Sesame", "Oil">>],
      [term |-> <<"vegetable", "oil">>, name |-> <<"Vegetable", "Oil">>],
      [term |-> <<"soy", "sauce">>, name |-> <<"Soy", "Sauce">>],
      [term |-> <<"chicken", "broth">>, name |-> <<"Chicken", "Broth">>],
      [term |-> <<"vegetable", "broth">>, name |-> <<"Vegetable", "Broth">>],
      [term |-> <<"broth">>, name |-> <<"Chicken", "Broth">>],
      [term |-> <<"sea", "salt">>, name |-> <<"Sea", "Salt">>],
      [term |-> <<"salt">>, name |-> <<"Sea", "Salt">>],
      [term |-> <<"fresh", "thyme">>, name |-> <<"Fresh", "Thyme">>],
      [term |-> <<"thyme">>, name |-> <<"Fresh", "Thyme">>],
      [term |-> <<"fresh", "dill">>, name |-> <<"Fresh", "Dill">>],
      [term |-> <<"dill">>, name |-> <<"Fresh", "Dill">>],
      [term |-> <<"taco", "seasoning">>, name |-> <<"Taco", "Seasoning">>],
      [term |-> <<"taco", "shells">>, name |-> <<"Taco", "Shells">>],
      [term |-> <<"bananas">>, name |-> <<"Bananas">>],
      [term |-> <<"banana">>, name |-> <<"Bananas">>],
      [term |-> <<"lemon">>, name |-> <<"Lemon">>],
      [term |-> <<"lemons">>, name |-> <<"Lemon">>]>>

\* the words of the table and of the items of which one is a proper part of
\* another: each is the beginning of the other
WordPrefixes ==
    {<<"banana", "bananas">>, <<"carrot", "carrots">>, <<"egg", "eggs">>,
     <<"lemon", "lemons">>, <<"onion", "onions">>, <<"pepper", "peppers">>,
     <<"sea", "seasoning">>, <<"tomato", "tomatoes">>}

StartsWord(u, w) == u = w \/ <<u, w>> \in WordPrefixes

\* python "term in text" on strings: the words of the term stand in the
\* text one after the other, the last of them as the beginning of a word
Contains(term, text) ==
    \E i \in 1..(Len(text) - Len(term) + 1) :
        /\ \A m \in 1..(Len(term) - 1) : text[i + m - 1] = term[m]
        /\ StartsWord(term[Len(term)], text[i + Len(term) - 1])

\* lines 259-273: the exact match, else the first search term contained
\* in the name, else <<>>
Mapped(normalized_ingredient) ==
    LET exact == {k \in DOMAIN ingredient_mapping :
                     ingredient_mapping[k].term = normalized_ingredient}
        partial == {k \in DOMAIN ingredient_mapping :
                       Contains(ingredient_mapping[k].term,
                                normalized_ingredient)}
        first(S) == CHOOSE k \in S : \A m \in S : k <= m
    IN IF exact # {} THEN ingredient_mapping[first(exact)].name
       ELSE IF partial # {} THEN ingredient_mapping[first(partial)].name
       ELSE <<>>

\* lines 251-283 for one item: the name it adds, <<>> when it adds none
Resolve(raw_ingredient) ==
    LET clean_ingredient == clean_ingredient_name(StripQuantity(raw_ingredient))
    IN IF clean_ingredient = <<>> THEN <<>>
       ELSE IF Mapped(lower(clean_ingredient)) # <<>>
            THEN Mapped(lower(clean_ingredient))
       ELSE clean_ingredient

\* the loop appending every resolved name
RECURSIVE FoundLoop_KeepsDuplicates(_, _, _)
FoundLoop_KeepsDuplicates(raw_ingredients, i, found_ingredients) ==
    IF i > Len(raw_ingredients) THEN found_ingredients
    ELSE LET name == Resolve(raw_ingredients[i])
         IN FoundLoop_KeepsDuplicates(raw_ingredients, i + 1,
              IF name = <<>> THEN found_ingredients
              ELSE Append(found_ingredients, name))

\* the loop of lines 251-283 (and 285-312)
RECURSIVE FoundLoop(_, _, _)
FoundLoop(raw_ingredients, i, found_ingredients) ==
    IF i > Len(raw_ingredients) THEN found_ingredients
    ELSE LET name == Resolve(raw_ingredients[i])
         IN FoundLoop(raw_ingredients, i + 1,
              IF name = <<>> \/ name \in Range(found_ingredients)
              THEN found_ingredients
              ELSE Append(found_ingredients, name))

\* re.search of a pattern "<head>:\s*(.+)" with re.IGNORECASE: the text
\* after the first place the head stands with something after it, as
\* <<text>>, or <<>>
RECURSIVE SearchHead(_, _, _)
SearchHead(head, text, i) ==
    IF i + Len(head) > Len(text) THEN <<>>
    ELSE IF lower(SubSeq(text, i, i + Len(head) - 1)) = head
         THEN <<SubSeq(text, i + Len(head), Len(text))>>
    ELSE SearchHead(head, text, i + 1)

\* line 245: the text after "cart (serves N):", as <<text>>, or <<>>
ServedPart(text) ==
    LET served == {SearchHead(<<"cart", "(serves", n, ":">>, text, 1) :
                      n \in {"4)", "2)"}} \ {<<>>}
    IN IF served # {} THEN CHOOSE m \in served : TRUE ELSE <<>>

\* lines 244-248: "cart (serves N):" first, else "check ingredient
\* availability:"
ListPart(text) ==
    IF ServedPart(text) # <<>> THEN ServedPart(text)
    ELSE SearchHead(<<"check", "ingredient", "availability", ":">>, text, 1)

\* lines 253 and 287-288: the items the loop goes through
raw_ingredients(text) ==
    IF ListPart(text) # <<>> THEN split(ListPart(text)[1])
    ELSE IF \E i \in DOMAIN text : text[i] = "," THEN split(text)
    ELSE <<>>

\* lines 145-315
_parse_ingredients(text) == FoundLoop(raw_ingredients(text), 1, <<>>)

\* _parse_ingredients(text) for a text of the model
ParseText ==
    /\ parseRun.pc = "idle"
    /\ \E text \in ParseTexts :
          parseRun' = [pc |-> "parsed", text |-> text,
                       found_ingredients |-> _parse_ingredients(text),
                       again |-> <<>>]
    /\ UNCHANGED <<genVars, orch, cartRun, keyRun, scaleRun, cacheOps>>

\* _parse_ingredients(", ".join(found_ingredients))
ParseOwnOutput ==
    /\ parseRun.pc = "parsed"
    /\ parseRun' = [parseRun EXCEPT
          !.pc = "reparsed",
          !.again = _parse_ingredients(CommaJoin(parseRun.found_ingredients))]
    /\ UNCHANGED <<genVars, orch, cartRun, keyRun, scaleRun, cacheOps>>

InitParse == InitOrch

NextParse ==
    \/ ParseText
    \/ ParseOwnOutput

SpecParse == InitParse /\ [][NextParse]_vars

----------------------------------------------------------------------------
(* recipeservice/recipe_store.py: scale_ingredients.  A quantity is a      *)
(* number of quarters; the default servings are powers of two, so every    *)
(* product and quotient below is exact in binary floating point.  A        *)
(* rendered number is its integer part and the digits after the point,     *)
(* <<>> when the text has no point.                                         *)

MaxQuarters == 6          \* quantities 0.25 .. 1.5
MaxServings == 8          \* target servings -1 .. 8
MaxScaleIngredients == 2  \* ingredients of one recipe

Measured == {[name |-> "Jasmine Rice", unit |-> "cups"],
             [name |-> "Olive Oil", unit |-> "tbsp"],
             [name |-> "Garlic", unit |-> "cloves"],
             [name |-> "Taco Seasoning", unit |-> "packages"]}

ScaleIngredients ==
    {[name |-> m.name, unit |-> m.unit, quarters |-> q] :
        m \in Measured, q \in 1..MaxQuarters}

ScaleRecipes ==
    {[default_servings |-> d, ingredients |-> ings] :
        d \in {1, 2, 4},
        ings \in SeqsUpTo(ScaleIngredients, MaxScaleIngredients) \ {<<>>}}

\* python round(n / d) and the rounding of format: to the nearest, ties to
\* the even neighbour
RoundHalfEven(n, d) ==
    LET f == n \div d
        r2 == 2 * (n % d)
    IN IF r2 < d THEN f
       ELSE IF r2 > d THEN f + 1
       ELSE IF f % 2 = 0 THEN f ELSE f + 1

\* f"{n / d:.1f}"
OneDecimal(n, d) ==
    [int |-> RoundHalfEven(10 * n, d) \div 10,
     frac |-> <<RoundHalfEven(10 * n, d) % 10>>]

\* one decimal place whatever the quantity
ScaledText_AlwaysOneDecimal(ingredient, n, d) ==
    [quantity |-> IF ingredient.unit \in {"pieces", "cloves", "packet"}
                  THEN [int |-> RoundHalfEven(n, d), frac |-> <<>>]
                  ELSE OneDecimal(n, d),
     unit |-> ingredient.unit, name |-> ingredient.name]

\* lines 91-105, scaled_quantity = n / d
ScaledText(ingredient, n, d) ==
    [quantity |-> IF ingredient.unit \in {"pieces", "cloves", "packet"}
                  THEN [int |-> RoundHalfEven(n, d), frac |-> <<>>]
                  ELSE IF n % d = 0 THEN [int |-> n \div d, frac |-> <<>>]
                  ELSE OneDecimal(n, d),
     unit |-> ingredient.unit, name |-> ingredient.name]

\* lines 78-109
scale_ingredients(recipe, target_servings) ==
    LET target == IF target_servings <= 0 THEN recipe.default_servings
                  ELSE target_servings
    IN [i \in DOMAIN recipe.ingredients |->
           ScaledText(recipe.ingredients[i],
                      recipe.ingredients[i].quarters * target,
                      4 * recipe.default_servings)]

\* scale_ingredients(recipe, target_servings) for a recipe and a target
\* of the model
Scale ==
    /\ scaleRun.pc = "idle"
    /\ \E recipe \in ScaleRecipes, target_servings \in (-1)..MaxServings :
          scaleRun' = [pc |-> "scaled", recipe |-> recipe,
                       target_servings |-> target_servings,
                       scaled_ingredients |->
                           scale_ingredients(recipe, target_servings)]
    /\ UNCHANGED <<genVars, orch, cartRun, keyRun, parseRun, cacheOps>>

InitScale == InitOrch

NextScale == Scale

SpecScale == InitScale /\ [][NextScale]_vars

----------------------------------------------------------------------------
(* recipe_generator.py: the accesses to the two TTLCache instances *)

Op(c, op, line) == [cache |-> c, op |-> op, line |-> line]

\* the cache operations a thread performs, in program order
Programs(t) ==
    IF t \in {"request1", "request2"}
    THEN {<<Op("cache", "contains", 151), Op("cache", "getitem", 153)>>,
          <<Op("cache", "contains", 151), Op("cache", "setitem", 173)>>}
    ELSE IF t = "run"
    THEN {<<Op("cache", "setitem", 1073)>>}
    ELSE {<<Op("image_cache", "contains", 758),
            Op("image_cache", "getitem", 760)>>,
          <<Op("image_cache", "contains", 758),
            Op("image_cache", "setitem", 810)>>,
          <<Op("image_cache", "contains", 758)>>}

AccessStart(t, prog) ==
    /\ cacheOps[t].prog = <<>>
    /\ cacheOps' = [cacheOps EXCEPT ![t] = [prog |-> prog, i |-> 1, in |-> FALSE]]
    /\ UNCHANGED <<genVars, orch, cartRun, keyRun, parseRun, scaleRun>>

\* the thread calls into the TTLCache method; the code takes no lock before
OpEnter(t) ==
    /\ cacheOps[t].i \in DOMAIN cacheOps[t].prog
    /\ ~cacheOps[t].in
    /\ cacheOps' = [cacheOps EXCEPT ![t].in = TRUE]
    /\ UNCHANGED <<genVars, orch, cartRun, keyRun, parseRun, scaleRun>>

\* the TTLCache method returns
OpExit(t) ==
    /\ cacheOps[t].in
    /\ cacheOps' = [cacheOps EXCEPT ![t].in = FALSE, ![t].i = @ + 1]
    /\ UNCHANGED <<genVars, orch, cartRun, keyRun, parseRun, scaleRun>>

InitAccess == InitOrch

NextAccess ==
    \/ \E t \in AccessThreads : \E prog \in Programs(t) : AccessStart(t, prog)
    \/ \E t \in AccessThreads : OpEnter(t)
    \/ \E t \in AccessThreads : OpExit(t)

SpecAccess == InitAccess /\ [][NextAccess]_vars

----------------------------------------------------------------------------
(* Properties of the suggestion engine *)

\* C1: every generate_suggested_recipes call returns a list of between 1
\* and 3 recipes, whatever the generation capability did.
C1_ReturnsOneToThree ==
    ret.kind # "none" => (ret.kind = "list" /\ Len(ret.recipes) \in 1..3)

\* C2: the background thread started by a cache hit issues one
\* image-generation attempt for each cached recipe (when image generation
\* is available) before it ends.
C2_HitRunEnriches ==
    \A i \in DOMAIN runs :
        (runs[i].argc = 2 /\ genai_available /\ runs[i].pc # "gather")
            => runs[i].attempts = 1..runs[i].n

\* C3: every cache-miss call (two or more cart items), whatever the
\* generation capability did, leaves the returned set in the cache under
\* the computed key and has started one enrichment thread for that set.
C3_MissStoresAndEnriches ==
    [][(nCalls' = nCalls + 1 /\ ret'.path \in {"miss", "miss_except"})
         => LET cache_key == _generate_cache_key(ret'.cart_items,
                                                 ret'.session_id)
            IN /\ cache_key \in DOMAIN cache'
               /\ cache'[cache_key] = ret'.recipes
               /\ Len(runs') = Len(runs) + 1
               /\ runs'[Len(runs')].argc = 3
               /\ runs'[Len(runs')].n = Len(ret'.recipes)]_vars

\* C4: a call that finds its key in the cache never invokes the generation
\* capability: the membership test that hits and the read that follows
\* leave the number of generation calls unchanged.
C4_HitNeverGenerates ==
    [][(call'.pc = "hit_read" \/ call.pc = "hit_read")
         => genCalls' = genCalls]_vars

\* a hit has returned the cached list after an earlier generation call
C4_Witness ==
    /\ ret.kind = "list" /\ ret.path = "hit" /\ ret.recipes # <<>>
    /\ genCalls = 1 /\ nCalls = 2

----------------------------------------------------------------------------
(* Properties of the orchestration *)

CHECK_AVAILABILITY == <<"check", "ingredient", "availability">>

ProductKeys == {"matched_products", "product_details", "matched_ingredients",
                "unmatched_ingredients"}

\* C5: when the call to the ingredient matcher fails remotely,
\* process_recipe ends in the fallback outcome: status degraded, the raw
\* extracted ingredient list, and no product data.
C5_MatcherFailureIsDegraded ==
    (orch.pc = "done" /\ orch.matchStatus = "error") =>
        /\ orch.result.status = "degraded"
        /\ "ingredients" \in orch.result.keys
        /\ orch.result.ingredients = split(orch.recipe_text)
        /\ orch.result.keys \cap ProductKeys = {}

\* C6: when matching succeeded and the call to the cart adder fails
\* remotely, the result status is failed.
C6_CartFailureIsFailed ==
    (orch.pc = "done" /\ orch.matchStatus = "success"
                      /\ orch.cartStatus = "error") =>
        orch.result.status = "failed"

C8_AddCallsAreTheMatchedIds ==
    (orch.pc = "done" /\ orch.cartStatus = "success") =>
        {orch.addCalls[i].product_id : i \in DOMAIN orch.addCalls}
            = Range(orch.matched_products)

\* C9: in the matcher, every name whose search call errored is in
\* unmatched_ingredients and contributes no products, and every extracted
\* name is searched.
C9_ErroredSearchIsUnmatched ==
    orch.response.kind = "result" =>
        LET r == orch.response
        IN /\ [i \in DOMAIN r.searches |-> r.searches[i].name] = orch.extracted
           /\ \A i \in DOMAIN r.searches :
                 r.searches[i].outcome = "error" =>
                    /\ r.searches[i].name \in Range(r.unmatched_ingredients)
                    /\ r.searches[i].products = <<>>

\* C9 as the code has it: a name whose search call errored is looked up in
\* the mock table and contributes what the table holds for it; it is in
\* unmatched_ingredients exactly when the table holds nothing for it; every
\* extracted name is searched, once and in order.
C9_ErroredSearchUsesMockTable ==
    orch.response.kind = "result" =>
        LET r == orch.response
        IN /\ [i \in DOMAIN r.searches |-> r.searches[i].name] = orch.extracted
           /\ \A i \in DOMAIN r.searches :
                 r.searches[i].outcome = "error" =>
                    /\ r.searches[i].products
                          = _mock_search_products(r.searches[i].name)
                    /\ (r.searches[i].name \in Range(r.unmatched_ingredients))
                          <=> (_mock_search_products(r.searches[i].name) = <<>>)
                    /\ \A k \in DOMAIN r.searches[i].products :
                          r.searches[i].products[k].id \in Range(r.product_ids)

\* the search for Garlic errored and Garlic is matched with the mock
\* table's product; the next search errored too and its name is unmatched
C9_Witness ==
    /\ orch.response.kind = "result"
    /\ Len(orch.response.searches) = 2
    /\ orch.response.searches[1].name = "Garlic"
    /\ orch.response.searches[1].outcome = "error"
    /\ orch.response.searches[2].name = "Saffron"
    /\ orch.response.searches[2].outcome = "error"
    /\ orch.response.matched_ingredients = <<"Garlic">>
    /\ orch.response.unmatched_ingredients = <<"Saffron">>
    /\ orch.response.product_ids = <<GARLIC001>>

\* C10: in the matcher result, a name whose search returned zero results
\* is unmatched and not matched; matched and unmatched are disjoint and
\* together the extracted names, each in extraction order; product_ids is
\* the products of the matched names in input order.
C10_MatcherResultPartition ==
    orch.response.kind = "result" =>
        LET r == orch.response
            ingredients == orch.extracted
            matched == Range(r.matched_ingredients)
            unmatched == Range(r.unmatched_ingredients)
        IN /\ \A i \in DOMAIN r.searches :
                 r.searches[i].outcome = "0" =>
                    /\ r.searches[i].name \in unmatched
                    /\ r.searches[i].name \notin matched
           /\ matched \cap unmatched = {}
           /\ matched \cup unmatched = Range(ingredients)
           /\ r.matched_ingredients = SelectSeqBy(ingredients, matched)
           /\ r.unmatched_ingredients = SelectSeqBy(ingredients, unmatched)
           /\ r.product_ids =
                 Flatten([i \in DOMAIN r.searches |->
                            IF r.searches[i].name \in matched
                            THEN [k \in DOMAIN r.searches[i].products |->
                                     r.searches[i].products[k].id]
                            ELSE <<>>])

\* a name with zero results stands before a name with two products
C10_Witness ==
    /\ orch.response.kind = "result"
    /\ Len(orch.response.searches) = 2
    /\ orch.response.searches[1].outcome = "0"
    /\ orch.response.unmatched_ingredients = <<orch.extracted[1]>>
    /\ orch.response.matched_ingredients = <<"Garlic">>
    /\ orch.response.product_ids = <<GARLIC001, GARLIC002>>

----------------------------------------------------------------------------
(* Properties of the cart adder *)

\* indices of the AddItem calls that succeeded
OkCalls == {i \in DOMAIN cartRun.calls : cartRun.calls[i].ok}

\* C11: in process_cart_request, for every list of product ids and every
\* pattern of failing add calls, one add call is issued per product id in
\* list order whatever failed before it, the cart keeps what was added,
\* and added_items is the subsequence of ids whose add call succeeded.
C11_OneAddPerIdNoRollback ==
    (cartRun.pc = "done" /\ cartRun.kind = "success") =>
        /\ [i \in DOMAIN cartRun.calls |-> cartRun.calls[i].product_id]
              = cartRun.product_ids
        /\ \A i \in DOMAIN cartRun.calls :
              cartRun.calls[i].user_id = cartRun.user_id
        /\ Len(cartRun.added_items) = Cardinality(OkCalls)
        /\ \A i \in OkCalls :
              cartRun.added_items[Cardinality({j \in OkCalls : j <= i})]
                 = cartRun.product_ids[i]
        /\ cartRun.cart = cartRun.cart_before \o cartRun.added_items

\* the first of three add calls failed, the two after it succeeded, and
\* the cart kept what it held
C11_Witness ==
    /\ cartRun.pc = "done"
    /\ cartRun.kind = "success"
    /\ Len(cartRun.calls) = 3
    /\ ~cartRun.calls[1].ok /\ cartRun.calls[2].ok /\ cartRun.calls[3].ok
    /\ cartRun.cart_before = <<SAFFRON001>>
    /\ cartRun.added_items = SubSeq(cartRun.product_ids, 2, 3)

----------------------------------------------------------------------------
(* Properties of the cache key *)

\* C15: _generate_cache_key returns the same key for every permutation of
\* the same multiset of cart items with the same session id.
C15_KeyIgnoresOrder ==
    keyRun.pc = "done" =>
        \A p \in Reorderings(keyRun.cart_items) :
            _generate_cache_key(p, keyRun.session_id) = keyRun.key

\* the key of a cart of three items that is not in sorted order and holds
\* an item twice
C15_Witness ==
    /\ keyRun.pc = "done"
    /\ keyRun.cart_items = <<"rice", "Garlic", "rice">>
    /\ keyRun.key = <<"Garlic", ",", "rice", ",", "rice", ":", keyRun.session_id>>

----------------------------------------------------------------------------
(* Properties of background enrichment *)

\* a recipe an image call has handled carries a path or None
Processed(recipe) == recipe.image_data \in {"img", "None"}

\* a set no recipe or every recipe of which has been handled
Complete(recipes) ==
    \/ \A j \in DOMAIN recipes : ~Processed(recipes[j])
    \/ \A j \in DOMAIN recipes : Processed(recipes[j])

\* the write of a run comes after all its image calls
WriteAfterAllCalls ==
    \A i \in DOMAIN runs :
        (~runs[i].wrote /\ runs'[i].wrote) =>
            (runs[i].pending = {} /\ runs[i].attempts = 1..runs[i].n)

\* what the cache holds and what a call returned is never half handled
NothingPartial ==
    /\ \A k \in DOMAIN cache : Complete(cache[k])
    /\ ret.kind = "list" => Complete(ret.recipes)

----------------------------------------------------------------------------
(* Properties of the synchronous path *)

\* C14: for a cart of fewer than 2 items generate_suggested_recipes
\* returns the static fallback set of the cart items in every cache state;
\* it invokes no generation, leaves the recipe cache alone and starts no
\* enrichment run.
C14_ShortCartIsStatic ==
    [][(nCalls' = nCalls + 1 /\ call'.pc = "idle"
           /\ Len(ret'.cart_items) < 2) =>
          /\ ret'.kind = "list"
          /\ ret'.recipes = _get_fallback_recipes(ret'.cart_items)
          /\ genCalls' = genCalls
          /\ cache' = cache
          /\ runs' = runs]_vars

\* a one-item cart answered while the cache holds an entry and generation
\* has been used once
C14_Witness ==
    /\ ret.kind = "list" /\ ret.path = "short"
    /\ ret.cart_items = <<"Garlic">>
    /\ Len(ret.recipes) = 3
    /\ cache # <<>>
    /\ genCalls = 1 /\ nCalls = 2

\* C20: generate_suggested_recipes returns without waiting for the
\* enrichment it started: at the return, on the hit and on the miss path,
\* the run has completed no image call, and no step of enrichment changes
\* what the call returned.
C20_ReturnNeverWaits ==
    [][/\ Len(runs') = Len(runs) + 1 =>
             /\ runs'[Len(runs')].attempts = {}
             /\ ret'.kind = "list" /\ ret'.path \in {"hit", "miss"}
             /\ call'.pc = "idle"
             /\ ret'.path = "hit" =>
                   ret'.recipes = cache[_generate_cache_key(ret'.cart_items,
                                                           ret'.session_id)]
             /\ ret'.path = "miss" => \A j \in DOMAIN ret'.recipes :
                                         ~Processed(ret'.recipes[j])
       /\ (nCalls' = nCalls /\ call.pc = "idle") => ret' = ret]_vars

\* two calls have returned, the second from the cache, and the run the
\* first one started has all three image calls still ahead
C20_Witness ==
    /\ ret.kind = "list" /\ ret.path = "hit" /\ nCalls = 2
    /\ Len(runs) = 2
    /\ runs[1].pc = "gather" /\ runs[1].n = 3
    /\ runs[1].attempts = {} /\ runs[1].pending = 1..3
    /\ runs[2].pc = "type_error"

----------------------------------------------------------------------------
(* Properties of the miss path *)

\* C22: on a cache miss the call returns the static fallback set of the
\* cart whenever the generation gave no usable drafts (timeout, error,
\* text that is no JSON, JSON without a usable draft): what a miss returns
\* is the fallback set or the formatted drafts, of which there is at least
\* one.
C22_UnusableGenerationGivesFallback ==
    [][(nCalls' = nCalls + 1 /\ call'.pc = "idle"
           /\ ret'.path \in {"miss", "miss_except"}) =>
          \/ ret'.recipes = _get_fallback_recipes(ret'.cart_items)
          \/ /\ ret'.recipes # <<>>
             /\ \E drafts \in DraftArrays :
                   ret'.recipes = _run_adk_agent(drafts)]_vars

\* C27: a call on the hit path returns a recipe list also when the entry
\* expired between the membership test and the read: nothing is raised to
\* the caller.
C27_ExpiryOnHitPathGivesList ==
    ret.path = "hit" => ret.kind = "list"

----------------------------------------------------------------------------
(* Properties of the enrichment batch *)

----------------------------------------------------------------------------
(* Properties of the result of process_recipe *)

\* C23: process_recipe never raises: whatever the matcher call and the
\* cart-adder call gave (success, error status, text that is no JSON or no
\* JSON object, no text), it returns a result with a status, a message and
\* the ingredient list of the request text.
C23_AlwaysStructuredResult ==
    orch.pc = "done" =>
        /\ orch.result.status # "raised"
        /\ {"status", "message", "ingredients"} \subseteq orch.result.keys
        /\ orch.result.status = "success"
        /\ orch.result.message # "none"
        /\ orch.result.ingredients = split(orch.recipe_text)

\* the matcher answered with JSON that is no object
C23_Witness ==
    /\ orch.pc = "done"
    /\ orch.response.kind = "non_object"
    /\ orch.result = fallback_result(orch.recipe_text)

\* one set is the other with images added: same recipes in the same
\* order, differing in image_data at most
SameButImages(a, b) ==
    /\ DOMAIN a = DOMAIN b
    /\ \A j \in DOMAIN a :
          [a[j] EXCEPT !.image_data = ""] = [b[j] EXCEPT !.image_data = ""]

\* C28: a run that completes replaces the entry of its key only with an
\* enriched copy of the set the entry holds at that moment: it does not
\* overwrite a different set stored under the key since the run started,
\* and it does not create the entry anew when it has expired.
C28_RunReplacesOnlyItsOwnSet ==
    [][\A i \in DOMAIN runs :
          (runs[i].pc = "gather" /\ runs'[i].pc # "gather") =>
             IF runs[i].cache_key \in DOMAIN cache
             THEN /\ runs[i].cache_key \in DOMAIN cache'
                  /\ SameButImages(cache[runs[i].cache_key],
                                   cache'[runs[i].cache_key])
             ELSE runs[i].cache_key \notin DOMAIN cache']_vars

----------------------------------------------------------------------------
(* Properties of the orchestration and the cart adder together *)

\* C29: when process_recipe answers an add-to-cart request with status
\* success and a list of matched products, every product of the list was
\* added to the cart by an AddItem call that succeeded.
C29_SuccessMeansAdded ==
    (/\ orch.pc = "done"
     /\ should_add_to_cart(orch.recipe_text)
     /\ orch.result.status = "success"
     /\ "matched_products" \in orch.result.keys) =>
        \A p \in DOMAIN orch.result.matched_products :
           \E i \in DOMAIN orch.addCalls :
              /\ orch.addCalls[i].product_id = orch.result.matched_products[p]
              /\ orch.addCalls[i].ok

\* C30: every AddItem call of an orchestration carries the user id that was
\* handed to process_recipe.
C30_AddCallsCarryTheUserId ==
    \A i \in DOMAIN orch.addCalls : orch.addCalls[i].user_id = orch.user_id

----------------------------------------------------------------------------
(* Properties of _parse_ingredients *)

\* C16: parsing the comma-joined output of _parse_ingredients yields that
\* output again, for every text and every length of the output, a single
\* name included.
C16_ParseIsIdempotent ==
    parseRun.pc = "reparsed" => parseRun.again = parseRun.found_ingredients

\* the names the items of a text resolve to, in the order of the items
ResolvedNames(text) ==
    SelectSeq([i \in DOMAIN raw_ingredients(text) |->
                  Resolve(raw_ingredients(text)[i])],
              LAMBDA name : name # <<>>)

\* C17: the output of _parse_ingredients holds no name twice: of the names
\* the items resolve to, it holds the first occurrence of each, in order.
C17_FirstOccurrencesOnly ==
    parseRun.pc # "idle" =>
        LET found == parseRun.found_ingredients
            names == ResolvedNames(parseRun.text)
        IN /\ \A i, j \in DOMAIN found : i # j => found[i] # found[j]
           /\ Range(found) = Range(names)
           /\ \A i, j \in DOMAIN found :
                 i < j =>
                    \E k \in DOMAIN names :
                       /\ names[k] = found[i]
                       /\ \A m \in DOMAIN names : names[m] = found[j] => k < m

\* two items resolved to one name and another item to another name
C17_Witness ==
    /\ parseRun.pc = "parsed"
    /\ Len(ResolvedNames(parseRun.text)) = 3
    /\ Len(parseRun.found_ingredients) = 2
    /\ ResolvedNames(parseRun.text)[1] = ResolvedNames(parseRun.text)[3]

\* the catalog names of the mapping
CatalogNames == {ingredient_mapping[k].name : k \in DOMAIN ingredient_mapping}

\* the catalog names an item names: after its quantity and unit, the name
\* itself or the name behind one modifier
NamedBy(raw_ingredient) ==
    {name \in CatalogNames :
        \/ lower(StripQuantity(raw_ingredient)) = lower(name)
        \/ \E m \in MODIFIERS :
              lower(StripQuantity(raw_ingredient)) = <<m>> \o lower(name)}

\* C18: from a text of the form "cart (serves N): <list>" the output holds
\* the catalog name of every item that names one, whether the item has a
\* quantity and unit in front, a modifier in front, or a catalog name that
\* begins with a modifier word.
C18_CartItemsResolveToCatalogNames ==
    (parseRun.pc # "idle" /\ ServedPart(parseRun.text) # <<>>) =>
        \A i \in DOMAIN raw_ingredients(parseRun.text) :
            NamedBy(raw_ingredients(parseRun.text)[i])
               \subseteq Range(parseRun.found_ingredients)

\* C24: when the text matches neither list pattern, the whole text is
\* split on commas, a text without a comma being one item: every item that
\* resolves to a catalog name has that name in the output.
C24_FallbackSplitsWholeText ==
    (parseRun.pc # "idle" /\ ListPart(parseRun.text) = <<>>) =>
        \A i \in DOMAIN split(parseRun.text) :
            Resolve(split(parseRun.text)[i]) \in CatalogNames =>
                Resolve(split(parseRun.text)[i])
                    \in Range(parseRun.found_ingredients)

\* C25: the scan order of the table puts every search term before the
\* shorter terms it contains: an item whose normalized name is no search
\* term but contains a search term of several words resolves to the
\* catalog name of that term, not to that of a shorter term inside it.
C25_SpecificTermsScanFirst ==
    parseRun.pc # "idle" =>
          \A i \in DOMAIN raw_ingredients(parseRun.text) :
             LET normalized_ingredient ==
                    lower(clean_ingredient_name(
                        StripQuantity(raw_ingredients(parseRun.text)[i])))
             IN \A k \in DOMAIN ingredient_mapping :
                   (/\ Len(ingredient_mapping[k].term) > 1
                    /\ Contains(ingredient_mapping[k].term,
                                normalized_ingredient)
                    /\ \A m \in DOMAIN ingredient_mapping :
                          ingredient_mapping[m].term # normalized_ingredient)
                   => ingredient_mapping[k].name
                         \in Range(parseRun.found_ingredients)

----------------------------------------------------------------------------
(* Properties of scale_ingredients *)

\* the ingredients of a scaled recipe with a measurable unit whose scaled
\* quantity is a whole number
IntegralMeasured ==
    IF scaleRun.pc # "scaled" THEN {}
    ELSE LET recipe == scaleRun.recipe
             target == IF scaleRun.target_servings <= 0
                       THEN recipe.default_servings
                       ELSE scaleRun.target_servings
         IN {i \in DOMAIN recipe.ingredients :
                /\ recipe.ingredients[i].unit \notin {"pieces", "cloves", "packet"}
                /\ (recipe.ingredients[i].quarters * target)
                      % (4 * recipe.default_servings) = 0}

\* C19 as stated: a measurable-unit ingredient whose scaled quantity is
\* integral is rendered with one decimal place, as in "3.0 cups Jasmine
\* Rice".
C19_IntegralRendersWithDecimal ==
    \A i \in IntegralMeasured :
        scaleRun.scaled_ingredients[i].quantity.frac = <<0>>

\* C19: a measurable-unit ingredient whose scaled quantity is integral is
\* rendered as that integer without a decimal point, as in "3 cups Jasmine
\* Rice".
C19_IntegralRendersAsInteger ==
    \A i \in IntegralMeasured :
        LET recipe == scaleRun.recipe
            target == IF scaleRun.target_servings <= 0
                      THEN recipe.default_servings
                      ELSE scaleRun.target_servings
        IN scaleRun.scaled_ingredients[i] =
              [quantity |->
                  [int |-> (recipe.ingredients[i].quarters * target)
                              \div (4 * recipe.default_servings),
                   frac |-> <<>>],
               unit |-> recipe.ingredients[i].unit,
               name |-> recipe.ingredients[i].name]

\* 1 1/2 cups Jasmine Rice, default servings 4, target servings 8
C19_Witness ==
    /\ scaleRun.pc = "scaled"
    /\ scaleRun.recipe.default_servings = 4
    /\ scaleRun.target_servings = 8
    /\ scaleRun.recipe.ingredients[1] =
          [name |-> "Jasmine Rice", unit |-> "cups", quarters |-> 6]
    /\ 1 \in IntegralMeasured
    /\ scaleRun.scaled_ingredients[1].quantity.int = 3

\* C26: an ingredient whose unit is countable (pieces, cloves, packages)
\* is rendered with its scaled quantity rounded to the nearest integer,
\* whatever the quantity and the servings.
C26_CountableRendersRounded ==
    scaleRun.pc = "scaled" =>
        LET recipe == scaleRun.recipe
            target == IF scaleRun.target_servings <= 0
                      THEN recipe.default_servings
                      ELSE scaleRun.target_servings
        IN \A i \in DOMAIN recipe.ingredients :
              recipe.ingredients[i].unit \in {"pieces", "cloves", "packages"} =>
                 LET n == recipe.ingredients[i].quarters * target
                     d == 4 * recipe.default_servings
                     text == scaleRun.scaled_ingredients[i]
                 IN /\ text.quantity.frac = <<>>
                    /\ 2 * (text.quantity.int * d - n) <= d
                    /\ 2 * (n - text.quantity.int * d) <= d

----------------------------------------------------------------------------
(* Properties of the cache accesses *)

\* C13: every access to a cache instance executes inside one
\* mutual-exclusion boundary of that cache: two threads are never inside
\* operations on the same cache at the same time.
C13_OneThreadInsideEachCache ==
    \A t, u \in AccessThreads :
        (t # u /\ cacheOps[t].in /\ cacheOps[u].in) =>
            cacheOps[t].prog[cacheOps[t].i].cache
               # cacheOps[u].prog[cacheOps[u].i].cache

====
